---- MODULE Spec2Model ----
(***************************************************************************)
(* django-jsonit: JSON response shaping (jsonit/http.py), the exception    *)
(* interceptors (jsonit/decorators.py, jsonit/middleware.py).              *)
(*                                                                         *)
(* One request/response cycle: a request arrives (NewRequest), the session *)
(* message storage may receive messages (AddMessage), then exactly one of  *)
(* the response-producing operations runs to completion.                   *)
(***************************************************************************)
EXTENDS Integers, Sequences, FiniteSets, TLC

\* ------------------------------------------------------------------ bounds
MaxMsgs == 2
MaxForms == 1

\* ------------------------------------------------------- python/JSON values
\* Python None in a string-typed slot (header value, redirect location).
None == "None"

EmptyErrs == [k \in {} |-> <<>>]

\* A tagged value: one record shape for every value a dict can hold.
Str(s) == [kind |-> "str", str |-> s, dict |-> EmptyErrs]
Bool(b) == [kind |-> "bool", str |-> IF b THEN "true" ELSE "false", dict |-> EmptyErrs]
Null == [kind |-> "null", str |-> "", dict |-> EmptyErrs]
Obj == [kind |-> "object", str |-> "", dict |-> EmptyErrs]
Dict(d) == [kind |-> "dict", str |-> "", dict |-> d]
Absent == [kind |-> "absent", str |-> "", dict |-> EmptyErrs]

EmptyDict == [k \in {} |-> Null]

\* `x or {}` on a dict argument.
OrEmpty(d) == IF DOMAIN d = {} THEN EmptyDict ELSE d

\* dict.setdefault(k, v): the dict after the call.
SetDefault(d, k, v) == IF k \in DOMAIN d THEN d ELSE d @@ (k :> v)

HasObject(d) == \E k \in DOMAIN d : d[k].kind = "object"

\* ---------------------------------------------------------------- exceptions
NoException == [cls |-> "None", hasMessage |-> FALSE, message |-> "", str |-> ""]
ValueErrorX == [cls |-> "ValueError", hasMessage |-> FALSE, message |-> "", str |-> "x"]
ValidationErr == [cls |-> "ValidationError", hasMessage |-> TRUE, message |-> "bad input",
                  str |-> "['bad input']"]
EncodeError == [cls |-> "TypeError", hasMessage |-> FALSE, message |-> "",
                str |-> "Object is not JSON serializable"]
MissingRequestError == [cls |-> "TypeError", hasMessage |-> FALSE, message |-> "",
                        str |-> "__init__() missing 1 required positional argument: 'request'"]

Exceptions == {ValueErrorX, ValidationErr}

\* ------------------------------------------------------------------- inputs
HeaderValues == {None, "", "xmlhttprequest", "XMLHttpRequest"}

Messages == {[class |-> "error", message |-> "some message"],
             [class |-> "", message |-> "saved"]}

DetailsInputs == {EmptyDict, "k" :> Str("v"), "k" :> Obj}
ExtraContextInputs == {EmptyDict, "x" :> Str("v"), "x" :> Obj}
RedirectInputs == {None, "", "/next"}

\* form-like objects: `errors` is the items() of form.errors in order,
\* `auto_id` is form[field].auto_id ("" when the field renders no id).
FormValid == [errors |-> <<>>, auto_id |-> ("name" :> "id_name")]
FormName == [errors |-> <<[field |-> "name", errors |-> <<"required">>]>>,
             auto_id |-> ("name" :> "id_name")]
FormAll == [errors |-> <<[field |-> "__all__", errors |-> <<"bad combo">>]>>,
            auto_id |-> ("name" :> "id_name")]
FormNoId == [errors |-> <<[field |-> "name", errors |-> <<"required">>]>>,
             auto_id |-> ("name" :> "")]
FormEmptyList == [errors |-> <<[field |-> "name", errors |-> <<>>]>>,
                  auto_id |-> ("name" :> "id_name")]
FormBoth == [errors |-> <<[field |-> "__all__", errors |-> <<"bad combo">>],
                          [field |-> "name", errors |-> <<"required">>]>>,
             auto_id |-> ("name" :> "id_name")]

Forms == {FormValid, FormName, FormAll, FormNoId, FormEmptyList, FormBoth}

FormLists == UNION {[1..n -> Forms] : n \in 0..MaxForms}

\* ------------------------------------------------------------------- state
VARIABLES DEBUG, header, pending, pc, call, self, result, encodes, drains

vars == <<DEBUG, header, pending, pc, call, self, result, encodes, drains>>

\* --------------------------------------------------------------- envelope
BlankContent == [keys |-> {}, success |-> FALSE, details |-> EmptyDict, messages |-> <<>>,
                 redirect |-> Absent, exception |-> Absent, extra_context |-> EmptyDict]

NoSelf == [cls |-> "None", success |-> FALSE, details |-> EmptyDict,
           extra_context |-> EmptyDict, redirect |-> None, forms |-> <<>>]

NoCall == [op |-> "none", success |-> FALSE, details |-> EmptyDict,
           extra_context |-> EmptyDict, redirect |-> None, forms |-> <<>>,
           exception |-> NoException, raises |-> FALSE, pending |-> <<>>]

NoResult == [kind |-> "none", type |-> "None", content |-> BlankContent, exc |-> NoException]

HtmlResponse == [kind |-> "return", type |-> "HttpResponse", content |-> BlankContent,
                 exc |-> NoException]

ReturnsNone == [kind |-> "return", type |-> "None", content |-> BlankContent,
                exc |-> NoException]

Raise(e) == [kind |-> "raise", type |-> "None", content |-> BlankContent, exc |-> e]

\* --------------------------------------------------------- collaborators
\* request.build_absolute_uri(location) for the request to http://testserver/current
build_absolute_uri(location) ==
    IF location = "" THEN "http://testserver/current"
    ELSE "http://testserver" \o location

\* jsonit.encoder.encode: the JSON document of `content`, or a TypeError when a
\* value has no JSON form.
encode(content) ==
    IF HasObject(content.details) \/ HasObject(content.extra_context)
    THEN [ok |-> FALSE, json |-> BlankContent, exc |-> EncodeError]
    ELSE [ok |-> TRUE, json |-> content, exc |-> NoException]

\* content[k] = v
SetKey(content, k, v) == [content EXCEPT ![k] = v, !.keys = @ \cup {k}]

\* ----------------------------------------------------------------- http.py
is_ajax_any_case(h) == h \in {"XMLHttpRequest", "xmlhttprequest"}

is_ajax(h) == h = "XMLHttpRequest"

InitialContent_no_messages(obj) ==
    [BlankContent EXCEPT !.keys = {"success", "details"},
                         !.success = obj.success,
                         !.details = obj.details]

InitialContent(obj) ==
    [BlankContent EXCEPT !.keys = {"success", "details", "messages"},
                         !.success = obj.success,
                         !.details = obj.details,
                         !.messages = <<>>]

ExceptionText(exception) ==
    IF exception.hasMessage THEN exception.message
    ELSE "Internal error" \o ": " \o exception.str

ExceptionContent_keeps_details(content, exception) ==
    SetKey(SetKey(content, "success", FALSE), "exception", Str(ExceptionText(exception)))

ExceptionContent(content, exception) ==
    SetKey(SetKey(SetKey(content, "success", FALSE), "details", EmptyDict),
           "exception", Str(ExceptionText(exception)))

\* w is the world a method runs in: the response object, the request's message
\* storage and the counts of storage reads and encode calls of this build.
get_messages_always_reads(w) ==
    [w |-> [w EXCEPT !.pending = <<>>, !.drains = @ + 1], ret |-> w.pending]

get_messages_inverted_success(w) ==
    IF ~w.self.success /\ w.self.redirect # None
    THEN [w |-> w, ret |-> <<>>]
    ELSE [w |-> [w EXCEPT !.pending = <<>>, !.drains = @ + 1], ret |-> w.pending]

get_messages(w) ==
    IF w.self.success /\ w.self.redirect # None
    THEN [w |-> w, ret |-> <<>>]
    ELSE [w |-> [w EXCEPT !.pending = <<>>, !.drains = @ + 1], ret |-> w.pending]

get_redirect(obj) ==
    IF ~obj.success THEN None ELSE obj.redirect

WithRedirect(content, obj) ==
    IF get_redirect(obj) # None
    THEN SetKey(content, "redirect", Str(obj.redirect))
    ELSE content

WithExtraContext(content, obj) ==
    IF DOMAIN obj.extra_context # {}
    THEN SetKey(content, "extra_context", obj.extra_context)
    ELSE content

Reraise_always(exception) == TRUE

Reraise(exception) == exception # NoException

\* one (field, errors) item of form.errors
CollectField_only_nonempty(obj, form, item) ==
    LET field == IF item.field # "__all__" THEN form.auto_id[item.field] ELSE item.field
        s1 == IF item.errors # <<>> THEN [obj EXCEPT !.success = FALSE] ELSE obj
    IN  IF field # "" /\ item.errors # <<>>
        THEN LET d1 == SetDefault(s1.details, "form_errors", Dict(EmptyErrs))
                 fe == SetDefault(d1["form_errors"].dict, field, <<>>)
                 fe2 == [fe EXCEPT ![field] = @ \o item.errors]
             IN  [s1 EXCEPT !.details = [d1 EXCEPT !["form_errors"] = Dict(fe2)]]
        ELSE s1

CollectField(obj, form, item) ==
    LET s1 == [obj EXCEPT !.success = FALSE]
        field == IF item.field # "__all__" THEN form.auto_id[item.field] ELSE item.field
    IN  IF field # ""
        THEN LET d1 == SetDefault(s1.details, "form_errors", Dict(EmptyErrs))
                 fe == SetDefault(d1["form_errors"].dict, field, <<>>)
                 fe2 == [fe EXCEPT ![field] = @ \o item.errors]
             IN  [s1 EXCEPT !.details = [d1 EXCEPT !["form_errors"] = Dict(fe2)]]
        ELSE s1

RECURSIVE CollectForm(_, _, _)
CollectForm(obj, form, i) ==
    IF i > Len(form.errors) THEN obj
    ELSE CollectForm(CollectField(obj, form, form.errors[i]), form, i + 1)

RECURSIVE CollectForms(_, _)
CollectForms(obj, i) ==
    IF i > Len(obj.forms) THEN obj
    ELSE CollectForms(CollectForm(obj, obj.forms[i], 1), i + 1)

get_form_errors(w) == [w EXCEPT !.self = CollectForms(w.self, 1)]

RECURSIVE build_json(_, _)
RECURSIVE JSONResponse_build_json(_, _)

JSONResponse_build_json(w, exception) ==
    LET c0 == InitialContent(w.self)
        m == get_messages(w)
        w1 == IF exception # NoException THEN w ELSE m.w
        c1 == IF exception # NoException
              THEN ExceptionContent(c0, exception)
              ELSE WithRedirect(SetKey(c0, "messages", m.ret), w.self)
        c2 == WithExtraContext(c1, w.self)
        enc == encode(c2)
        w2 == [w1 EXCEPT !.encodes = @ + 1]
    IN  IF enc.ok
        THEN [w |-> w2,
              out |-> [kind |-> "return", type |-> "JSONResponse", content |-> enc.json,
                       exc |-> NoException]]
        ELSE IF Reraise(exception)
             THEN [w |-> w2, out |-> Raise(enc.exc)]
             ELSE build_json(w2, enc.exc)

JSONFormResponse_build_json(w, exception) ==
    JSONResponse_build_json(get_form_errors(w), exception)

\* self.build_json(...): dispatch on the class of the object
build_json(w, exception) ==
    IF w.self.cls = "JSONFormResponse"
    THEN JSONFormResponse_build_json(w, exception)
    ELSE JSONResponse_build_json(w, exception)

\* the object as __init__ leaves it before build_json runs
NewSelf(cls, c) ==
    [cls |-> cls,
     success |-> c.success,
     details |-> OrEmpty(c.details),
     extra_context |-> OrEmpty(c.extra_context),
     redirect |-> IF c.redirect # None THEN build_absolute_uri(c.redirect) ELSE None,
     forms |-> c.forms]

\* cls(request, details=..., success=..., exception=..., ...); `hasRequest` is
\* whether the call supplies the required `request` argument.
Construct(cls, hasRequest, c, store) ==
    IF ~hasRequest
    THEN [w |-> [self |-> NoSelf, pending |-> store, encodes |-> 0, drains |-> 0],
          out |-> Raise(MissingRequestError)]
    ELSE build_json([self |-> NewSelf(cls, c), pending |-> store, encodes |-> 0,
                     drains |-> 0], c.exception)

\* ----------------------------------------------------------- decorators.py
\* dec(request): the handler either returns its response or raises c.exception
dec(h, c, store) ==
    IF ~c.raises
    THEN [w |-> [self |-> NoSelf, pending |-> store, encodes |-> 0, drains |-> 0],
          out |-> HtmlResponse]
    ELSE IF is_ajax(h)
         THEN Construct("JSONResponse", TRUE, [NoCall EXCEPT !.success = TRUE,
                                                !.exception = c.exception], store)
         ELSE [w |-> [self |-> NoSelf, pending |-> store, encodes |-> 0, drains |-> 0],
               out |-> Raise(c.exception)]

\* ----------------------------------------------------------- middleware.py
process_exception(h, c, store) ==
    IF is_ajax(h)
    THEN Construct("JSONResponse", FALSE, [NoCall EXCEPT !.success = TRUE,
                                            !.exception = c.exception], store)
    ELSE [w |-> [self |-> NoSelf, pending |-> store, encodes |-> 0, drains |-> 0],
          out |-> ReturnsNone]

\* ------------------------------------------------------------------ actions
Init ==
    /\ DEBUG \in BOOLEAN
    /\ header \in HeaderValues
    /\ pending = <<>>
    /\ pc = "request"
    /\ call = NoCall
    /\ self = NoSelf
    /\ result = NoResult
    /\ encodes = 0
    /\ drains = 0

\* the next request of the session arrives; the previous response is discarded
NewRequest ==
    /\ pc = "responded"
    /\ \E h \in HeaderValues : header' = h
    /\ pc' = "request"
    /\ call' = NoCall
    /\ self' = NoSelf
    /\ result' = NoResult
    /\ encodes' = 0
    /\ drains' = 0
    /\ UNCHANGED <<DEBUG, pending>>

\* messages.add_message(request, ...) while the request is handled
AddMessage ==
    /\ pc = "request"
    /\ Len(pending) < MaxMsgs
    /\ \E m \in Messages : pending' = Append(pending, m)
    /\ UNCHANGED <<DEBUG, header, pc, call, self, result, encodes, drains>>

Finish(c, r) ==
    /\ call' = c
    /\ self' = r.w.self
    /\ pending' = r.w.pending
    /\ encodes' = r.w.encodes
    /\ drains' = r.w.drains
    /\ result' = r.out
    /\ pc' = "responded"
    /\ UNCHANGED <<DEBUG, header>>

NewJSONResponse ==
    /\ pc = "request"
    /\ \E d \in DetailsInputs, s \in BOOLEAN, e \in Exceptions \cup {NoException},
          rd \in RedirectInputs, x \in ExtraContextInputs :
        LET c == [NoCall EXCEPT !.op = "JSONResponse", !.details = d, !.success = s,
                                !.exception = e, !.redirect = rd, !.extra_context = x,
                                !.pending = pending]
        IN  Finish(c, Construct("JSONResponse", TRUE, c, pending))

NewJSONFormResponse ==
    /\ pc = "request"
    /\ \E d \in DetailsInputs, s \in BOOLEAN, e \in Exceptions \cup {NoException},
          rd \in RedirectInputs, x \in ExtraContextInputs, fs \in FormLists :
        LET c == [NoCall EXCEPT !.op = "JSONFormResponse", !.details = d, !.success = s,
                                !.exception = e, !.redirect = rd, !.extra_context = x,
                                !.forms = fs, !.pending = pending]
        IN  Finish(c, Construct("JSONFormResponse", TRUE, c, pending))

DecoratedCall ==
    /\ pc = "request"
    /\ \E raises \in BOOLEAN, e \in Exceptions :
        LET c == [NoCall EXCEPT !.op = "dec", !.raises = raises,
                                !.exception = IF raises THEN e ELSE NoException,
                                !.pending = pending]
        IN  Finish(c, dec(header, c, pending))

MiddlewareCall ==
    /\ pc = "request"
    /\ \E e \in Exceptions :
        LET c == [NoCall EXCEPT !.op = "process_exception", !.raises = TRUE,
                                !.exception = e, !.pending = pending]
        IN  Finish(c, process_exception(header, c, pending))

Next ==
    \/ NewRequest
    \/ AddMessage
    \/ NewJSONResponse
    \/ NewJSONFormResponse
    \/ DecoratedCall
    \/ MiddlewareCall

Spec == Init /\ [][Next]_vars

\* ------------------------------------------------------------ properties
Built == pc = "responded" /\ call.op \in {"JSONResponse", "JSONFormResponse"}

Envelope == pc = "responded" /\ result.kind = "return" /\ result.type = "JSONResponse"

HasKey(k) == k \in result.content.keys

\* C1 (as stated): every envelope has exactly one of the keys `exception` and
\* `messages`: never both, never neither.
C1_ExactlyOneOfExceptionMessages ==
    Envelope => (HasKey("exception") /\ ~HasKey("messages"))
                \/ (~HasKey("exception") /\ HasKey("messages"))

\* C1 (amended): every envelope has the `messages` key; the `exception` key is
\* present exactly when the build took the exception path (an exception was passed
\* or the first encode failed), and then `messages` is the empty list and
\* `redirect` is absent.
C1_MessagesAlwaysExceptionOnExceptionPath ==
    Envelope =>
        /\ HasKey("messages")
        /\ HasKey("exception") <=> (call.exception # NoException \/ encodes = 2)
        /\ HasKey("exception") => (result.content.messages = <<>> /\ ~HasKey("redirect"))

C1_Witness ==
    /\ Envelope
    /\ call.op = "JSONResponse"
    /\ call.exception # NoException
    /\ call.pending # <<>>
    /\ HasKey("exception")
    /\ HasKey("messages")

\* C2: an envelope with the `exception` key has success false and details empty,
\* on every entry into the exception path.
C2_ExceptionImpliesFailureAndEmptyDetails ==
    (Envelope /\ HasKey("exception")) =>
        (result.content.success = FALSE /\ result.content.details = EmptyDict)

C2_Witness ==
    /\ Envelope
    /\ call.op = "JSONFormResponse"
    /\ call.success
    /\ call.details # EmptyDict
    /\ "form_errors" \in DOMAIN self.details
    /\ encodes = 2
    /\ HasKey("exception")

\* C3 (as stated): on a non-exception build the envelope carries `redirect`: the
\* absolute URL when success is true and a redirect was supplied, null otherwise.
C3_RedirectUrlOrNull ==
    (Envelope /\ Built /\ ~HasKey("exception")) =>
        /\ HasKey("redirect")
        /\ result.content.redirect =
              IF self.success /\ call.redirect # None
              THEN Str(build_absolute_uri(call.redirect))
              ELSE Null

\* C4 (as stated): for an AJAX request the middleware returns the envelope the
\* decorator returns for the same exception and request, and never fails.
C4_MiddlewareEqualsDecorator ==
    (pc = "responded" /\ call.op = "process_exception" /\ header = "XMLHttpRequest") =>
        /\ result.kind = "return"
        /\ result = dec(header, call, call.pending).out

\* C5: the decorated handler: an exception on an AJAX request becomes an
\* exception envelope, on any other request it propagates unchanged, and a
\* handler that returns has its response returned unchanged.
C5_DecoratorCatchesOnlyAjax ==
    (pc = "responded" /\ call.op = "dec") =>
        /\ (call.raises /\ header = "XMLHttpRequest") =>
              /\ Envelope
              /\ result.content.success = FALSE
              /\ HasKey("exception")
              /\ result.content.exception =
                    Str(IF call.exception = ValueErrorX THEN "Internal error: x"
                        ELSE "bad input")
        /\ (call.raises /\ header # "XMLHttpRequest") => result = Raise(call.exception)
        /\ ~call.raises => result = HtmlResponse

C5_Witness ==
    /\ pc = "responded"
    /\ call.op = "dec"
    /\ call.raises
    /\ header = "XMLHttpRequest"
    /\ Envelope
    /\ HasKey("exception")

PrimaryEncodeFails ==
    call.exception = NoException
    /\ (HasObject(call.details) \/ HasObject(call.extra_context))

\* the response of the same constructor call made with exception=EncodeError
ExceptionPathResult ==
    Construct(call.op, TRUE, [call EXCEPT !.exception = EncodeError], call.pending).out

\* C6: a failed encode of the primary envelope is retried exactly once as the
\* exception envelope of the serialization error, which is returned; a second
\* failure propagates; a build makes at most two encode attempts.
C6_SerializationFailureRecoveredOnce ==
    Built =>
        /\ encodes \in {1, 2}
        /\ (PrimaryEncodeFails /\ ~HasObject(call.extra_context)) =>
              (encodes = 2 /\ result.kind = "return" /\ result = ExceptionPathResult)
        /\ (PrimaryEncodeFails /\ HasObject(call.extra_context)) =>
              (encodes = 2 /\ result = Raise(EncodeError))
        /\ ~PrimaryEncodeFails => encodes = 1

C6_Witness ==
    /\ Built
    /\ PrimaryEncodeFails
    /\ encodes = 2
    /\ Envelope
    /\ result.content.exception = Str("Internal error: Object is not JSON serializable")

\* C7: a build reads the message storage at most once; the retry path does not
\* read it again, and the exception path and the success-with-redirect path do
\* not read it at all.
C7_MessagesDrainedAtMostOnce ==
    Built =>
        /\ drains <= 1
        /\ call.exception # NoException => (drains = 0 /\ pending = call.pending)
        /\ (self.success /\ call.redirect # None) =>
              (drains = 0 /\ pending = call.pending)

C7_Witness ==
    /\ Built
    /\ encodes = 2
    /\ drains = 1
    /\ call.pending # <<>>
    /\ pending = <<>>

\* C8 (as stated): with DEBUG off the `exception` field is the boolean true; the
\* detail string appears only with DEBUG on.
C8_DebugGatesExceptionDetail ==
    (Envelope /\ HasKey("exception")) =>
        /\ ~DEBUG => result.content.exception = Bool(TRUE)
        /\ result.content.exception.kind = "str" => DEBUG

\* C9: success (after the form error collector) with a redirect supplied gives
\* an empty `messages`, whatever is pending; a form response whose errors turned
\* success off still delivers the pending messages.
C9_RedirectSuppressesMessages ==
    (Envelope /\ Built) =>
        /\ (self.success /\ call.redirect # None) => result.content.messages = <<>>
        /\ (call.success /\ ~self.success /\ call.redirect # None
              /\ ~HasKey("exception")) => result.content.messages = call.pending

C9_Witness ==
    /\ Envelope
    /\ Built
    /\ self.success
    /\ call.redirect # None
    /\ call.exception = NoException
    /\ Len(call.pending) = MaxMsgs
    /\ HasKey("redirect")
    /\ result.content.messages = <<>>

\* some field of some form has at least one error
HasError(fs) ==
    \E i \in DOMAIN fs : \E j \in DOMAIN fs[i].errors : fs[i].errors[j].errors # <<>>

\* some form's errors mapping has an entry
HasEntry(fs) == \E i \in DOMAIN fs : fs[i].errors # <<>>

\* some entry resolves to a non-empty id
HasEmittedEntry(fs) ==
    \E i \in DOMAIN fs : \E j \in DOMAIN fs[i].errors :
        \/ fs[i].errors[j].field = "__all__"
        \/ fs[i].auto_id[fs[i].errors[j].field] # ""

FormBuilt == pc = "responded" /\ call.op = "JSONFormResponse"

\* C10 (as stated): success is flipped exactly when some field has at least one
\* error, `form_errors` is added only if an error exists, and forms without any
\* error (fields mapped to an empty list included) leave success and details
\* unchanged.
C10_FlipOnlyOnNonEmptyErrors ==
    FormBuilt =>
        /\ self.success = (call.success /\ ~HasError(call.forms))
        /\ "form_errors" \in DOMAIN self.details => HasError(call.forms)
        /\ ~HasError(call.forms) => self.details = call.details

\* C10 (amended): success is flipped exactly when some form's errors mapping has
\* an entry (even one with an empty error list); `form_errors` is added exactly
\* when some entry resolves to a non-empty id; with no entry at all success and
\* details are unchanged; an entry with an empty id adds nothing but still flips
\* success.
C10_FlipOnAnyErrorsEntry ==
    FormBuilt =>
        /\ self.success = (call.success /\ ~HasEntry(call.forms))
        /\ "form_errors" \in DOMAIN self.details <=> HasEmittedEntry(call.forms)
        /\ ~HasEntry(call.forms) => self.details = call.details

C10_Witness ==
    /\ FormBuilt
    /\ call.success
    /\ call.forms = <<FormNoId>>
    /\ ~self.success
    /\ "form_errors" \notin DOMAIN self.details

====
